---- MODULE Spec2Model ----
(***************************************************************************)
(* The virtual storage array extension of the OpenStack API               *)
(* (nova/api/openstack/contrib/virtual_storage_arrays.py): the aggregate   *)
(* controller VsaController and the ownership-scoped child controllers     *)
(* VsaVolumeController / VsaDriveController, over a model of the           *)
(* persistence collaborators vsa.API, volume.API and instance_types.       *)
(***************************************************************************)
EXTENDS Integers, Sequences, FiniteSets, TLC

\* ------------------------------------------------------------------ bounds
MaxVsas == 2
MaxVols == 1
MaxPathId == 2

VARIABLES db, pending, last

vars == <<db, pending, last>>

\* ------------------------------------------------------- python data model
\* Python's None where a string is expected.
None == "None"

\* Python's None in an owning-link column (no digit string parses to it).
NoVsa == -1

\* The empty dict {}.
EmptyDict == [k \in {} |-> None]

\* A request body: absent (None) or a dict.
NoneBody == [none |-> TRUE, d |-> EmptyDict]

Dict(d) == [none |-> FALSE, d |-> d]

\* Python truthiness of a body: None and {} are falsy.
Truthy(body) == ~body.none /\ DOMAIN body.d # {}

\* dict.get(k, default)
Get(d, k, default) == IF k \in DOMAIN d THEN d[k] ELSE default

\* Ids arrive from the URL as digit strings; "01" and "1" are different
\* strings naming the same record.
PathIds == {<<n>> : n \in 1..MaxPathId} \cup {<<0, 1>>}

\* int(s) for a digit string s.
RECURSIVE int(_)
int(s) == IF s = <<>> THEN 0
          ELSE 10 * int(SubSeq(s, 1, Len(s) - 1)) + s[Len(s)]

\* ------------------------------------------------------------- responses
\* faults.Fault(exc.HTTPxxx()) and exc.HTTPAccepted(): a response value.
Fault(code) == [code |-> code, body |-> EmptyDict]

\* A dict returned by the handler.
Ok(body) == [code |-> "OK", body |-> body]

\* An exception that leaves the handler uncaught.
Unhandled(e) == [code |-> "Unhandled", body |-> ("exception" :> e)]

ClientErrors == {"HTTPNotFound", "HTTPBadRequest", "HTTPUnprocessableEntity"}

\* What a handler did: its response, the collaborator calls it made, the
\* store afterwards.
Out(resp, calls, d) == [resp |-> resp, calls |-> calls, db |-> d]

Call(fn, id, fields) == [fn |-> fn, id |-> id, fields |-> fields]

\* ------------------------------------------ collaborators: instance_types
default_vsa_instance_type == "m1.small"

InstanceTypeNames == {"m1.small", "m1.large"}

\* instance_types.get_instance_type_by_name: NotFound for an unknown name.
get_instance_type_by_name(name) ==
    IF name \in InstanceTypeNames
    THEN [exc |-> "", val |-> ("name" :> name)]
    ELSE [exc |-> "NotFound", val |-> EmptyDict]

\* ------------------------------------------------ collaborators: vsa.API
HasVsa(d, n) == \E v \in d.vsas : v.id = n

TheVsa(d, n) == CHOOSE v \in d.vsas : v.id = n

NewDrive(d, vsa_id) ==
    [id |-> d.nextVolId, size |-> 1, display_name |-> None,
     display_description |-> None, status |-> "available",
     availability_zone |-> "nova", created_at |-> "t0",
     provider_location |-> None, provider_auth |-> None,
     from_vsa_id |-> NoVsa, to_vsa_id |-> vsa_id]

\* vsa_api.create: stores the aggregate under a fresh id; a storage request
\* allocates a drive to it (to_vsa_id is the new aggregate).
vsa_api_create(d, display_name, display_description, storage, shared, instance_type, availability_zone) ==
    LET rec == [id |-> d.nextVsaId, name |-> <<"vsa-", d.nextVsaId>>,
                display_name |-> display_name,
                display_description |-> display_description,
                created_at |-> "t0", status |-> "creating",
                vsa_instance_type |-> instance_type, vc_count |-> 1,
                vol_count |-> IF storage = None THEN 0 ELSE 1]
        d1  == [d EXCEPT !.vsas = @ \cup {rec}, !.nextVsaId = @ + 1]
    IN  [exc |-> "", val |-> rec,
         db |-> IF storage = None THEN d1
                ELSE [d1 EXCEPT !.volumes = @ \cup {NewDrive(d, rec.id)},
                                !.nextVolId = @ + 1]]

\* vsa_api.get: NotFound when no aggregate has the id.
vsa_api_get(d, vsa_id) ==
    IF HasVsa(d, int(vsa_id))
    THEN [exc |-> "", val |-> TheVsa(d, int(vsa_id))]
    ELSE [exc |-> "NotFound", val |-> EmptyDict]

\* vsa_api.get_all
vsa_api_get_all(d) == d.vsas

\* vsa_api.delete: NotFound when no aggregate has the id.
vsa_api_delete(d, vsa_id) ==
    IF HasVsa(d, int(vsa_id))
    THEN [exc |-> "",
          db |-> [d EXCEPT !.vsas = @ \ {TheVsa(d, int(vsa_id))},
                           !.deletedVsas = @ \cup {int(vsa_id)}]]
    ELSE [exc |-> "NotFound", db |-> d]

\* --------------------------------------------- collaborators: volume.API
HasVolume(d, n) == \E v \in d.volumes : v.id = n

TheVolume(d, n) == CHOOSE v \in d.volumes : v.id = n

\* volume_api.get: NotFound when no volume has the id.
volume_api_get(d, volume_id) ==
    IF HasVolume(d, int(volume_id))
    THEN [exc |-> "", val |-> TheVolume(d, int(volume_id))]
    ELSE [exc |-> "NotFound", val |-> EmptyDict]

\* volume_api.get_all_by_vsa(vsa_id, "from" | "to")
volume_api_get_all_by_vsa(d, vsa_id, tag) ==
    {v \in d.volumes :
        (IF tag = "from" THEN v.from_vsa_id ELSE v.to_vsa_id) = int(vsa_id)}

\* volume_api.create: NotFound under a parent that does not exist; the
\* owning link is stored in an integer column.
volume_api_create(d, size, snapshot_id, name, description, from_vsa_id) ==
    IF ~HasVsa(d, int(from_vsa_id))
    THEN [exc |-> "NotFound", val |-> EmptyDict, db |-> d]
    ELSE LET rec == [id |-> d.nextVolId, size |-> size,
                     display_name |-> name,
                     display_description |-> description,
                     status |-> "creating", availability_zone |-> "nova",
                     created_at |-> "t0", provider_location |-> None,
                     provider_auth |-> None,
                     from_vsa_id |-> int(from_vsa_id), to_vsa_id |-> NoVsa]
         IN  [exc |-> "", val |-> rec,
              db |-> [d EXCEPT !.volumes = @ \cup {rec}, !.nextVolId = @ + 1]]

\* volume_api.update: NotFound when no volume has the id; otherwise the
\* given fields, and only those, are overwritten.
volume_api_update(d, volume_id, fields) ==
    IF ~HasVolume(d, int(volume_id))
    THEN [exc |-> "NotFound", db |-> d]
    ELSE LET old == TheVolume(d, int(volume_id))
             new == [k \in DOMAIN old |->
                        IF k \in DOMAIN fields THEN fields[k] ELSE old[k]]
         IN  [exc |-> "", db |-> [d EXCEPT !.volumes = (@ \ {old}) \cup {new}]]

\* volume_api.delete: NotFound when no volume has the id.
volume_api_delete(d, volume_id) ==
    IF ~HasVolume(d, int(volume_id))
    THEN [exc |-> "NotFound", db |-> d]
    ELSE [exc |-> "",
          db |-> [d EXCEPT !.volumes = @ \ {TheVolume(d, int(volume_id))},
                           !.deletedVols = @ \cup {int(volume_id)}]]

\* common.limited: the page of the list the request asks for; the default
\* page holds every list the bounds allow.
limited(items) == items

\* ------------------------------------------------------- VsaController
\* _vsa_view that leaves the type name out.
vsa_view_untyped(vsa, details) ==
    [id |-> vsa.id, name |-> vsa.name, displayName |-> vsa.display_name,
     displayDescription |-> vsa.display_description,
     createTime |-> vsa.created_at, status |-> vsa.status, vcType |-> None,
     vcCount |-> vsa.vc_count, driveCount |-> vsa.vol_count]

\* _vsa_view
vsa_view(vsa, details) ==
    [id |-> vsa.id, name |-> vsa.name, displayName |-> vsa.display_name,
     displayDescription |-> vsa.display_description,
     createTime |-> vsa.created_at, status |-> vsa.status,
     vcType |-> IF DOMAIN vsa.vsa_instance_type # {}
                THEN Get(vsa.vsa_instance_type, "name", None)
                ELSE None,
     vcCount |-> vsa.vc_count, driveCount |-> vsa.vol_count]

\* VsaController._items
vsa_items(d, details) ==
    Out(Ok("vsaSet" :> {vsa_view(v, details) : v \in limited(vsa_api_get_all(d))}),
        <<Call("vsa_api.get_all", <<>>, EmptyDict)>>, d)

\* VsaController.show
vsa_show(d, id) ==
    LET r == vsa_api_get(d, id)
        calls == <<Call("vsa_api.get", id, EmptyDict)>>
    IN  IF r.exc = "NotFound" THEN Out(Fault("HTTPNotFound"), calls, d)
        ELSE Out(Ok("vsa" :> vsa_view(r.val, TRUE)), calls, d)

\* VsaController.create
vsa_create(d, body) ==
    IF ~Truthy(body) THEN Out(Fault("HTTPUnprocessableEntity"), <<>>, d)
    ELSE IF "vsa" \notin DOMAIN body.d THEN Out(Unhandled("KeyError"), <<>>, d)
    ELSE
    LET vsa == body.d["vsa"]
        display_name == Get(vsa, "displayName", None)
        display_description == Get(vsa, "displayDescription", None)
        storage == Get(vsa, "storage", None)
        shared == Get(vsa, "shared", None)
        vc_type == Get(vsa, "vcType", default_vsa_instance_type)
        availability_zone ==
            Get(Get(vsa, "placement", EmptyDict), "AvailabilityZone", None)
        t == get_instance_type_by_name(vc_type)
        c1 == <<Call("instance_types.get_instance_type_by_name", <<>>,
                     "name" :> vc_type)>>
    IN  IF t.exc = "NotFound" THEN Out(Fault("HTTPNotFound"), c1, d)
        ELSE LET r == vsa_api_create(d, display_name, display_description,
                                     storage, shared, t.val, availability_zone)
             IN  Out(Ok("vsa" :> vsa_view(r.val, TRUE)),
                     Append(c1, Call("vsa_api.create", <<>>, t.val)), r.db)

\* A delete that answers accepted whether or not the aggregate was there.
vsa_delete_lenient(d, id) ==
    Out(Fault("HTTPAccepted"), <<Call("vsa_api.delete", id, EmptyDict)>>,
        vsa_api_delete(d, id).db)

\* VsaController.delete
vsa_delete(d, id) ==
    LET r == vsa_api_delete(d, id)
        calls == <<Call("vsa_api.delete", id, EmptyDict)>>
    IN  IF r.exc = "NotFound" THEN Out(Fault("HTTPNotFound"), calls, d)
        ELSE Out(Fault("HTTPAccepted"), calls, r.db)

\* ------------------------------------------- VsaVolumeDriveController
Ctrls == {"volume", "drive"}

\* self.direction, self.objects, self.object as the two subclasses set them.
direction(c) == IF c = "volume" THEN "from_vsa_id" ELSE "to_vsa_id"

objects(c) == IF c = "volume" THEN "volumes" ELSE "drives"

object(c) == IF c = "volume" THEN "volume" ELSE "drive"

\* self.direction.split('_')[0]
direction_tag(c) == IF direction(c) = "from_vsa_id" THEN "from" ELSE "to"

\* volumes.translate_volume_detail_view / translate_volume_summary_view
translate_volume_view(vol) ==
    [id |-> vol.id, status |-> vol.status, size |-> vol.size,
     availabilityZone |-> vol.availability_zone, createdAt |-> vol.created_at,
     displayName |-> vol.display_name,
     displayDescription |-> vol.display_description]

\* _translation that reads the other link field.
translation_other_link(c, vol, vsa_id, details) ==
    translate_volume_view(vol)
        @@ ("vsaId" :> vol[IF c = "volume" THEN "to_vsa_id" ELSE "from_vsa_id"])

\* _translation
translation(c, vol, vsa_id, details) ==
    translate_volume_view(vol) @@ ("vsaId" :> vol[direction(c)])

\* _check_volume_ownership without the comparison of the owner.
check_volume_ownership_found(c, d, vsa_id, id) ==
    IF volume_api_get(d, id).exc = "NotFound" THEN "NotFound" ELSE "ok"

\* _check_volume_ownership: "ok", or the exception it raises.
check_volume_ownership(c, d, vsa_id, id) ==
    LET r == volume_api_get(d, id)
    IN  IF r.exc = "NotFound" THEN "NotFound"
        ELSE IF r.val[direction(c)] # int(vsa_id) THEN "Invalid"
        ELSE "ok"

\* The except clauses that follow every call of _check_volume_ownership.
ownership_fault(chk) ==
    IF chk = "NotFound" THEN Fault("HTTPNotFound") ELSE Fault("HTTPBadRequest")

GetCall(id) == Call("volume_api.get", id, EmptyDict)

\* VsaVolumeDriveController._items
items(c, d, vsa_id, details) ==
    LET vols == volume_api_get_all_by_vsa(d, vsa_id, direction_tag(c))
    IN  Out(Ok(objects(c) :>
                 {translation(c, vol, vsa_id, details) : vol \in limited(vols)}),
            <<Call("volume_api.get_all_by_vsa", vsa_id,
                   "direction" :> direction_tag(c))>>, d)

\* VsaVolumeDriveController.create
base_create(c, d, vsa_id, body) ==
    IF ~Truthy(body) THEN Out(Fault("HTTPUnprocessableEntity"), <<>>, d)
    ELSE IF object(c) \notin DOMAIN body.d
    THEN Out(Unhandled("KeyError"), <<>>, d)
    ELSE
    LET vol == body.d[object(c)]
    IN  IF "size" \notin DOMAIN vol THEN Out(Unhandled("KeyError"), <<>>, d)
        ELSE
        LET r == volume_api_create(d, vol["size"], None,
                                   Get(vol, "displayName", None),
                                   Get(vol, "displayDescription", None), vsa_id)
            calls == <<Call("volume_api.create", vsa_id,
                            "size" :> vol["size"])>>
        IN  IF r.exc # "" THEN Out(Unhandled(r.exc), calls, d)
            ELSE Out(Ok(object(c) :> translation(c, r.val, vsa_id, TRUE)),
                     calls, r.db)

\* A whitelist that lets the owning link through.
updatable_fields_with_link ==
    {"display_name", "display_description", "status", "provider_location",
     "provider_auth", "from_vsa_id"}

updatable_fields ==
    {"display_name", "display_description", "status", "provider_location",
     "provider_auth"}

\* update without the except clause around volume_api.update.
update_apply_uncaught(c, d, id, body) ==
    IF body.none THEN Out(Unhandled("TypeError"), <<>>, d)
    ELSE IF object(c) \notin DOMAIN body.d
    THEN Out(Unhandled("KeyError"), <<>>, d)
    ELSE
    LET vol == body.d[object(c)]
        changes == [field \in updatable_fields \cap DOMAIN vol |-> vol[field]]
        r == volume_api_update(d, id, changes)
        calls == <<Call("volume_api.update", id, changes)>>
    IN  IF r.exc = "NotFound" THEN Out(Unhandled("NotFound"), calls, d)
        ELSE Out(Fault("HTTPAccepted"), calls, r.db)

\* The part of VsaVolumeDriveController.update after the ownership check.
update_apply(c, d, id, body) ==
    IF body.none THEN Out(Unhandled("TypeError"), <<>>, d)
    ELSE IF object(c) \notin DOMAIN body.d
    THEN Out(Unhandled("KeyError"), <<>>, d)
    ELSE
    LET vol == body.d[object(c)]
        changes == [field \in updatable_fields \cap DOMAIN vol |-> vol[field]]
        r == volume_api_update(d, id, changes)
        calls == <<Call("volume_api.update", id, changes)>>
    IN  IF r.exc = "NotFound" THEN Out(Fault("HTTPNotFound"), calls, d)
        ELSE Out(Fault("HTTPAccepted"), calls, r.db)

\* VsaVolumeDriveController.update
base_update(c, d, vsa_id, id, body) ==
    LET chk == check_volume_ownership(c, d, vsa_id, id)
    IN  IF chk # "ok" THEN Out(ownership_fault(chk), <<GetCall(id)>>, d)
        ELSE LET a == update_apply(c, d, id, body)
             IN  Out(a.resp, <<GetCall(id)>> \o a.calls, a.db)

\* volumes.VolumeController.delete
volumes_delete(d, id) ==
    LET r == volume_api_delete(d, id)
        calls == <<Call("volume_api.delete", id, EmptyDict)>>
    IN  IF r.exc = "NotFound" THEN Out(Fault("HTTPNotFound"), calls, d)
        ELSE Out(Fault("HTTPAccepted"), calls, r.db)

\* delete that goes to the collaborator without the ownership check.
child_delete_unchecked(c, d, vsa_id, id) == volumes_delete(d, id)

\* VsaVolumeDriveController.delete
child_delete(c, d, vsa_id, id) ==
    LET chk == check_volume_ownership(c, d, vsa_id, id)
    IN  IF chk # "ok" THEN Out(ownership_fault(chk), <<GetCall(id)>>, d)
        ELSE LET a == volumes_delete(d, id)
             IN  Out(a.resp, <<GetCall(id)>> \o a.calls, a.db)

\* volumes.VolumeController.show
volumes_show(c, d, vsa_id, id) ==
    LET r == volume_api_get(d, id)
    IN  IF r.exc = "NotFound" THEN Out(Fault("HTTPNotFound"), <<GetCall(id)>>, d)
        ELSE Out(Ok(object(c) :> translation(c, r.val, vsa_id, TRUE)),
                 <<GetCall(id)>>, d)

\* VsaVolumeDriveController.show
child_show(c, d, vsa_id, id) ==
    LET chk == check_volume_ownership(c, d, vsa_id, id)
    IN  IF chk # "ok" THEN Out(ownership_fault(chk), <<GetCall(id)>>, d)
        ELSE LET a == volumes_show(c, d, vsa_id, id)
             IN  Out(a.resp, <<GetCall(id)>> \o a.calls, a.db)

\* VsaDriveController.create
drive_create(d, vsa_id, body) == Out(Fault("HTTPBadRequest"), <<>>, d)

\* A drive controller that inherits update instead of overriding it.
drive_update_inherited(d, vsa_id, id, body) ==
    base_update("drive", d, vsa_id, id, body)

\* VsaDriveController.update
drive_update(d, vsa_id, id, body) == Out(Fault("HTTPBadRequest"), <<>>, d)

\* create / update as the controller of kind c dispatches them.
child_create(c, d, vsa_id, body) ==
    IF c = "drive" THEN drive_create(d, vsa_id, body)
    ELSE base_create(c, d, vsa_id, body)

child_update(c, d, vsa_id, id, body) ==
    IF c = "drive" THEN drive_update(d, vsa_id, id, body)
    ELSE base_update(c, d, vsa_id, id, body)

\* ------------------------------------------------------------ requests
VsaBodies ==
    {NoneBody, Dict(EmptyDict), Dict("foo" :> EmptyDict),
     Dict("vsa" :> ("displayName" :> "arr1" @@ "storage" :> "10GB")),
     Dict("vsa" :> ("vcType" :> "m1.large")),
     Dict("vsa" :> ("vcType" :> "bogus"))}

CreateBodies(c) ==
    {NoneBody, Dict(EmptyDict), Dict("foo" :> EmptyDict),
     Dict(object(c) :> EmptyDict),
     Dict(object(c) :> ("displayName" :> "v")),
     Dict(object(c) :> ("size" :> 3))}

Payloads ==
    {EmptyDict,
     "id" :> 9 @@ "size" :> 9 @@ "from_vsa_id" :> 2 @@ "to_vsa_id" :> 2,
     "display_name" :> "new" @@ "display_description" :> "text"
        @@ "status" :> "error" @@ "provider_location" :> "loc"
        @@ "provider_auth" :> "auth" @@ "from_vsa_id" :> 2 @@ "size" :> 9}

UpdateBodies(c) ==
    {NoneBody, Dict(EmptyDict), Dict("foo" :> EmptyDict)}
        \cup {Dict(object(c) :> p) : p \in Payloads}

\* The two requests whose steps may interleave: one update, one delete.
Threads == {"update", "delete"}

Idle == [op |-> "idle", ctrl |-> "", vsa_id |-> <<>>, id |-> <<>>,
         body |-> NoneBody]

Request(c, op, vsa_id, id, body) ==
    [op |-> op, ctrl |-> c, vsa_id |-> vsa_id, id |-> id, body |-> body]

\* The request that was answered last, with its answer.
Done(c, op, vsa_id, id, body, o) ==
    [ctrl |-> c, op |-> op, vsa_id |-> vsa_id, id |-> id, body |-> body,
     resp |-> o.resp, calls |-> o.calls]

\* Ids are handed out up to the bounds.
WithinBounds(d) == d.nextVsaId <= MaxVsas + 1 /\ d.nextVolId <= MaxVols + 1

\* No answer is on its way to a client.
NoAnswer == Done("", "none", <<>>, <<>>, NoneBody,
                 Out(Fault("none"), <<>>, {}))

\* A handler runs to its end and its answer is handed to the transport.
Answer(c, op, vsa_id, id, body, o) ==
    /\ last = NoAnswer
    /\ WithinBounds(o.db)
    /\ db' = o.db
    /\ last' = Done(c, op, vsa_id, id, body, o)

\* The transport delivers the answer to the client.
Deliver ==
    /\ last # NoAnswer
    /\ last' = NoAnswer
    /\ UNCHANGED <<db, pending>>

Init ==
    /\ db = [vsas |-> {}, volumes |-> {}, nextVsaId |-> 1, nextVolId |-> 1,
             deletedVsas |-> {}, deletedVols |-> {}]
    /\ pending = [t \in Threads |-> Idle]
    /\ last = NoAnswer

\* ---------------------------------------------- one request at a time
VsaIndex ==
    /\ Answer("vsa", "index", <<>>, <<>>, NoneBody, vsa_items(db, FALSE))
    /\ UNCHANGED pending

VsaDetail ==
    /\ Answer("vsa", "detail", <<>>, <<>>, NoneBody, vsa_items(db, TRUE))
    /\ UNCHANGED pending

VsaShow ==
    \E id \in PathIds :
        /\ Answer("vsa", "show", <<>>, id, NoneBody, vsa_show(db, id))
        /\ UNCHANGED pending

VsaCreate ==
    \E body \in VsaBodies :
        /\ Answer("vsa", "create", <<>>, <<>>, body, vsa_create(db, body))
        /\ UNCHANGED pending

VsaDelete ==
    \E id \in PathIds :
        /\ Answer("vsa", "delete", <<>>, id, NoneBody, vsa_delete(db, id))
        /\ UNCHANGED pending

ChildIndex ==
    \E c \in Ctrls, vsa_id \in PathIds :
        /\ Answer(c, "index", vsa_id, <<>>, NoneBody,
                  items(c, db, vsa_id, FALSE))
        /\ UNCHANGED pending

ChildDetail ==
    \E c \in Ctrls, vsa_id \in PathIds :
        /\ Answer(c, "detail", vsa_id, <<>>, NoneBody,
                  items(c, db, vsa_id, TRUE))
        /\ UNCHANGED pending

ChildCreate ==
    \E c \in Ctrls, vsa_id \in PathIds :
        \E body \in CreateBodies(c) :
            /\ Answer(c, "create", vsa_id, <<>>, body,
                      child_create(c, db, vsa_id, body))
            /\ UNCHANGED pending

ChildShow ==
    \E c \in Ctrls, vsa_id \in PathIds, id \in PathIds :
        /\ Answer(c, "show", vsa_id, id, NoneBody,
                  child_show(c, db, vsa_id, id))
        /\ UNCHANGED pending

ChildUpdate ==
    \E c \in Ctrls, vsa_id \in PathIds, id \in PathIds :
        \E body \in UpdateBodies(c) :
            /\ Answer(c, "update", vsa_id, id, body,
                      child_update(c, db, vsa_id, id, body))
            /\ UNCHANGED pending

ChildDelete ==
    \E c \in Ctrls, vsa_id \in PathIds, id \in PathIds :
        /\ Answer(c, "delete", vsa_id, id, NoneBody,
                  child_delete(c, db, vsa_id, id))
        /\ UNCHANGED pending

Next ==
    \/ VsaIndex \/ VsaDetail \/ VsaShow \/ VsaCreate \/ VsaDelete
    \/ ChildIndex \/ ChildDetail \/ ChildCreate \/ ChildShow
    \/ ChildUpdate \/ ChildDelete
    \/ Deliver

Spec == Init /\ [][Next]_vars

\* ------------------------------------------- requests served concurrently
\* An update and a delete are served at the same time. Each is split where
\* it calls the collaborator a second time: after its ownership check has
\* passed, and before the call that acts on the volume. The update is one of
\* the volume controller: the drive controller's makes no call at all.
BeginUpdate ==
    \E vsa_id \in PathIds, id \in PathIds :
        \E body \in UpdateBodies("volume") :
            /\ pending["update"] = Idle
            /\ IF check_volume_ownership("volume", db, vsa_id, id) = "ok"
               THEN /\ last = NoAnswer
                    /\ pending' = [pending EXCEPT !["update"] =
                          Request("volume", "update", vsa_id, id, body)]
                    /\ UNCHANGED <<db, last>>
               ELSE /\ Answer("volume", "update", vsa_id, id, body,
                              child_update("volume", db, vsa_id, id, body))
                    /\ UNCHANGED pending

FinishUpdate ==
    /\ pending["update"] # Idle
    /\ LET r == pending["update"]
           a == update_apply(r.ctrl, db, r.id, r.body)
       IN  Answer(r.ctrl, "update", r.vsa_id, r.id, r.body,
                  Out(a.resp, <<GetCall(r.id)>> \o a.calls, a.db))
    /\ pending' = [pending EXCEPT !["update"] = Idle]

BeginDelete ==
    \E c \in Ctrls, vsa_id \in PathIds, id \in PathIds :
        /\ pending["delete"] = Idle
        /\ IF check_volume_ownership(c, db, vsa_id, id) = "ok"
           THEN /\ last = NoAnswer
                /\ pending' = [pending EXCEPT
                      !["delete"] = Request(c, "delete", vsa_id, id, NoneBody)]
                /\ UNCHANGED <<db, last>>
           ELSE /\ Answer(c, "delete", vsa_id, id, NoneBody,
                          child_delete(c, db, vsa_id, id))
                /\ UNCHANGED pending

FinishDelete ==
    /\ pending["delete"] # Idle
    /\ LET r == pending["delete"]
           a == volumes_delete(db, r.id)
       IN  Answer(r.ctrl, "delete", r.vsa_id, r.id, r.body,
                  Out(a.resp, <<GetCall(r.id)>> \o a.calls, a.db))
    /\ pending' = [pending EXCEPT !["delete"] = Idle]

NextConc ==
    \/ VsaCreate \/ ChildCreate \/ Deliver
    \/ BeginUpdate \/ FinishUpdate
    \/ BeginDelete \/ FinishDelete

SpecConc == Init /\ [][NextConc]_vars

\* ------------------------------------------------------------- properties
\* What the formulas read of a request and the store it met.
Whitelist ==
    {"display_name", "display_description", "status", "provider_location",
     "provider_auth"}

Mutating == {"volume_api.create", "volume_api.update", "volume_api.delete",
             "vsa_api.create", "vsa_api.delete"}

CallsTo(calls, fns) == {i \in 1..Len(calls) : calls[i].fn \in fns}

\* The child the request names exists in store d and its owning link, read
\* as controller c reads it, is not the parent the request names.
OwnedByAnother(c, d, vsa_id, id) ==
    /\ HasVolume(d, int(id))
    /\ TheVolume(d, int(id))[direction(c)] # int(vsa_id)

\* The child the request names exists in d under the parent it names.
OwnedHere(c, d, vsa_id, id) ==
    /\ HasVolume(d, int(id))
    /\ TheVolume(d, int(id))[direction(c)] = int(vsa_id)

\* C1: show, update and delete of an existing child under a parent that is
\* not its owner answer bad request, with no data, whatever the controller.
C1_MismatchIsBadRequest ==
    [][(/\ last'.ctrl \in Ctrls
        /\ last'.op \in {"show", "update", "delete"}
        /\ OwnedByAnother(last'.ctrl, db, last'.vsa_id, last'.id))
       => /\ last'.resp = Fault("HTTPBadRequest")
          /\ db' = db]_vars

\* The scenario of C1: a volume of one aggregate shown under another
\* aggregate that exists.
C1_Witness ==
    /\ last.ctrl = "volume" /\ last.op = "show"
    /\ HasVsa(db, int(last.vsa_id))
    /\ OwnedByAnother("volume", db, last.vsa_id, last.id)
    /\ HasVsa(db, TheVolume(db, int(last.id)).from_vsa_id)
    /\ last.resp.code = "HTTPBadRequest"

\* C2: create and update of the drive controller answer bad request, call
\* no collaborator and leave the store as it was.
C2_DrivePolicyForbidden ==
    [][(last'.ctrl = "drive" /\ last'.op \in {"create", "update"})
       => /\ last'.resp = Fault("HTTPBadRequest")
          /\ last'.calls = <<>>
          /\ db' = db]_vars

\* A drive update of a drive addressed under its own aggregate, with a body
\* the volume controller would accept.
C2_Witness ==
    /\ last.ctrl = "drive" /\ last.op = "update"
    /\ OwnedHere("drive", db, last.vsa_id, last.id)
    /\ Truthy(last.body) /\ "drive" \in DOMAIN last.body.d
    /\ last.resp.code = "HTTPBadRequest"

\* C3: a volume update that passes the ownership check, with a payload
\* object, calls volume_api.update once, with the payload restricted to the
\* whitelist, answers accepted, and the store changes in those fields only.
C3_UpdateWhitelist ==
    [][(/\ last'.ctrl = "volume" /\ last'.op = "update"
        /\ OwnedHere("volume", db, last'.vsa_id, last'.id)
        /\ ~last'.body.none /\ "volume" \in DOMAIN last'.body.d)
       => LET payload == last'.body.d["volume"]
              fields  == [k \in Whitelist \cap DOMAIN payload |-> payload[k]]
              old     == TheVolume(db, int(last'.id))
              new     == [k \in DOMAIN old |->
                            IF k \in DOMAIN fields THEN fields[k] ELSE old[k]]
          IN  /\ Cardinality(CallsTo(last'.calls, Mutating)) = 1
              /\ last'.calls[Len(last'.calls)] =
                    Call("volume_api.update", last'.id, fields)
              /\ last'.resp = Fault("HTTPAccepted")
              /\ db' = [db EXCEPT !.volumes = (@ \ {old}) \cup {new}]]_vars

\* An accepted update whose payload held whitelisted and other fields.
C3_Witness ==
    /\ last.ctrl = "volume" /\ last.op = "update"
    /\ last.resp.code = "HTTPAccepted"
    /\ {"display_name", "from_vsa_id", "size"}
          \subseteq DOMAIN last.body.d["volume"]
    /\ TheVolume(db, int(last.id)).display_name = "new"

\* The singular key of the controller that served the request.
SingularKey(ctrl) == IF ctrl = "vsa" THEN "vsa" ELSE object(ctrl)

\* A body that is absent, empty, without the singular key, or (child
\* create) without size.
Malformed(ctrl, op, body) ==
    \/ body.none
    \/ DOMAIN body.d = {}
    \/ SingularKey(ctrl) \notin DOMAIN body.d
    \/ /\ ctrl \in Ctrls /\ op = "create"
       /\ "size" \notin DOMAIN body.d[SingularKey(ctrl)]

\* C4: create and update with a malformed body answer a client error.
C4_MalformedBodyIsClientError ==
    (last.op \in {"create", "update"} /\ Malformed(last.ctrl, last.op, last.body))
        => last.resp.code \in ClientErrors

\* C5: no failure raised by a collaborator leaves a handler uncaught.
C5_CollaboratorFailureIsMapped ==
    ~(last.resp.code = "Unhandled" /\ last.resp.body["exception"] = "NotFound")

\* C6: once a delete has removed a record, a delete of the same id answers
\* not found and leaves the store as it was.
C6_DeleteAgainIsNotFound ==
    [][(/\ last'.op = "delete"
        /\ \/ last'.ctrl = "vsa" /\ int(last'.id) \in db.deletedVsas
           \/ last'.ctrl \in Ctrls /\ int(last'.id) \in db.deletedVols)
       => /\ last'.resp = Fault("HTTPNotFound")
          /\ db' = db]_vars

\* A second delete of a volume, answered not found.
C6_Witness ==
    /\ last.op = "delete" /\ last.ctrl = "volume"
    /\ int(last.id) \in db.deletedVols
    /\ last.resp.code = "HTTPNotFound"

\* C7: a volume create with a size calls volume_api.create once, with the
\* parent id of the request as the owning link; under a parent that exists
\* it answers the view of the stored volume, whose vsaId is that parent.
C7_CreateUnderParent ==
    (/\ last.ctrl = "volume" /\ last.op = "create"
     /\ Truthy(last.body) /\ "volume" \in DOMAIN last.body.d
     /\ "size" \in DOMAIN last.body.d["volume"])
    => /\ last.calls = <<Call("volume_api.create", last.vsa_id,
                              "size" :> last.body.d["volume"]["size"])>>
       /\ HasVsa(db, int(last.vsa_id)) => last.resp.code = "OK"
       /\ last.resp.code = "OK" =>
            /\ last.resp.body["volume"]["vsaId"] = int(last.vsa_id)
            /\ \E v \in db.volumes :
                  /\ v.id = last.resp.body["volume"]["id"]
                  /\ v.from_vsa_id = int(last.vsa_id)
                  /\ v.size = last.body.d["volume"]["size"]

\* A volume created under an aggregate named with a leading zero.
C7_Witness ==
    /\ last.ctrl = "volume" /\ last.op = "create"
    /\ last.vsa_id = <<0, 1>>
    /\ last.resp.code = "OK"
    /\ last.resp.body["volume"]["vsaId"] = 1

\* C8: aggregate create with an unknown type name answers not found and
\* creates nothing; without vcType the view it answers carries the name of
\* the configured default type.
C8_TypeResolution ==
    [][(/\ last'.ctrl = "vsa" /\ last'.op = "create"
        /\ Truthy(last'.body) /\ "vsa" \in DOMAIN last'.body.d)
       => LET vsa == last'.body.d["vsa"]
          IN  /\ ("vcType" \in DOMAIN vsa /\ vsa["vcType"] \notin {"m1.small", "m1.large"})
                    => /\ last'.resp = Fault("HTTPNotFound")
                       /\ CallsTo(last'.calls, Mutating) = {}
                       /\ db' = db
              /\ "vcType" \notin DOMAIN vsa
                    => /\ last'.resp.code = "OK"
                       /\ last'.resp.body["vsa"]["vcType"] = "m1.small"
                       /\ db'.vsas # db.vsas]_vars

\* An aggregate created without vcType.
C8_Witness ==
    /\ last.ctrl = "vsa" /\ last.op = "create"
    /\ Truthy(last.body) /\ "vsa" \in DOMAIN last.body.d
    /\ "vcType" \notin DOMAIN last.body.d["vsa"]
    /\ last.resp.code = "OK"
    /\ last.resp.body["vsa"]["vcType"] = default_vsa_instance_type

\* C9: an update or delete whose ownership check fails calls nothing that
\* mutates and leaves the store as it was.
C9_FailedCheckMutatesNothing ==
    [][(/\ last'.ctrl \in Ctrls /\ last'.op \in {"update", "delete"}
        /\ ~OwnedHere(last'.ctrl, db, last'.vsa_id, last'.id))
       => /\ CallsTo(last'.calls, Mutating) = {}
          /\ last'.resp.code \in {"HTTPNotFound", "HTTPBadRequest"}
          /\ db' = db]_vars

\* A delete refused for ownership, its target still stored.
C9_Witness ==
    /\ last.ctrl = "volume" /\ last.op = "delete"
    /\ OwnedByAnother("volume", db, last.vsa_id, last.id)
    /\ last.resp.code = "HTTPBadRequest"

\* C10: an update whose volume is deleted between its ownership check and
\* its volume_api.update answers not found and changes nothing.
C10_UpdateAfterConcurrentDelete ==
    [][(/\ pending["update"] # Idle /\ pending'["update"] = Idle
        /\ ~HasVolume(db, int(pending["update"].id))
        /\ ~pending["update"].body.none
        /\ "volume" \in DOMAIN pending["update"].body.d)
       => /\ last'.op = "update" /\ last'.id = pending["update"].id
          /\ last'.resp = Fault("HTTPNotFound")
          /\ db' = db]_vars

\* The update reached volume_api.update and was answered not found.
C10_Witness ==
    /\ last.ctrl = "volume" /\ last.op = "update"
    /\ Len(last.calls) = 2 /\ last.calls[2].fn = "volume_api.update"
    /\ int(last.id) \in db.deletedVols
    /\ last.resp.code = "HTTPNotFound"

====
